---- MODULE Spec2Model ----
(***************************************************************************)
(* A model of job_output.JobOutput (src/job_output.py): the per-job log    *)
(* file, the checkpoint file written through a temporary '.new' file, and  *)
(* the redirection of sys.stdout / sys.stderr.                             *)
(*                                                                         *)
(* The file system holds one job group and one enabled job name; a process *)
(* (unit) constructs JobOutput objects and calls their methods.  The       *)
(* constructor and write_checkpoint are modelled statement by statement,   *)
(* so that a process can be interrupted (killed) between any two of them;  *)
(* the file system survives an interruption, the process state does not.   *)
(*                                                                         *)
(* Spec        one process running any code that uses JobOutput            *)
(* SpecStreams construction and the stream operations, with a record of    *)
(*             what connect_streams replaced                               *)
(* SpecRace    two processes that both construct as main unit              *)
(* SpecDriver  successive runs of the driver main.test_job (src/main.py)   *)
(***************************************************************************)
EXTENDS Integers, Sequences, FiniteSets, TLC

\* ---------------------------------------------------------------- bounds
MaxLog == 3       \* longest log file / console transcript, in pieces
NumObjects == 2   \* JobOutput objects one process run constructs
MaxRuns == 5      \* runs of the driver (main.py) on one job

\* ---------------------------------------------------------------- values
JOB_GROUP == "test_job"
JobName == "test_cifar"
DisabledNames == {"", "none"}
JobNames == {JobName} \cup DisabledNames

Procs == {"p0", "p1"}
Slots == 1..NumObjects
Times == {1}               \* what datetime.now() answers
Texts == {"a", "b"}        \* what is printed

\* The data handed to write_checkpoint: main.py saves dict(timestamps=[...]).
Records == {<<>>, <<1>>}

\* A path of the file system: absent, or a file with its content.
Absent == [ex |-> FALSE, data |-> <<>>]
File(d) == [ex |-> TRUE, data |-> d]

\* torch.save: the serialized form of a record, written front to back.
Serialize(R) == <<Len(R)>> \o R

\* A reader that takes the whole content for the record.
Deserialize_KeepsHeader(bytes) ==
    IF Len(bytes) >= 1 /\ bytes[1] = Len(bytes) - 1
    THEN [tag |-> "value", val |-> bytes]
    ELSE [tag |-> "raise", val |-> <<>>]

\* torch.load of a file's content: the record, or a failure when the content
\* is not one complete serialized record.
WellFormed(bytes) == Len(bytes) >= 1 /\ bytes[1] = Len(bytes) - 1
Deserialize(bytes) ==
    IF WellFormed(bytes)
    THEN [tag |-> "value", val |-> SubSeq(bytes, 2, Len(bytes))]
    ELSE [tag |-> "raise", val |-> <<>>]

\* What a call hands back: None, a record, or a failure.
RetNone == [tag |-> "None", val |-> <<>>]
RetValue(R) == [tag |-> "value", val |-> R]

\* Pieces of the log file and of a console transcript.
StartBanner(group, name, ts) == <<[kind |-> "Starting job", job |-> <<group, name>>, at |-> ts, txt |-> ""]>>
ContinueBanner(group, name, ts) ==
    << [kind |-> "=====", job |-> <<>>, at |-> 0, txt |-> ""],
       [kind |-> "Continuing job", job |-> <<group, name>>, at |-> ts, txt |-> ""] >>
Text(x) == [kind |-> "text", job |-> <<>>, at |-> 0, txt |-> x]

\* Streams: the process's original console streams, or a sink of an object.
Console(w) == [k |-> "console", slot |-> 0, w |-> w]
Sink(s, w) == [k |-> "sink", slot |-> s, w |-> w]
NoStream == [k |-> "None", slot |-> 0, w |-> ""]

NoObject == [alive |-> FALSE, is_main |-> FALSE, enabled |-> FALSE,
             cls |-> "None", out |-> NoStream, err |-> NoStream]

\* No connect_streams call is on record.
NoConnect == [slot |-> 0, out |-> NoStream, err |-> NoStream]

\* The locals of main.test_job (lines 14-56): the line it is at, the number of
\* this run, the --continue_from_check option, checkpoint['timestamps'], and
\* how many writes its print calls have made.  pc is "none" where the process
\* does not run the driver.
NoDriver == [pc |-> "none", run |-> 0, continue_from_check |-> FALSE,
             checkpoint |-> <<>>, prints |-> 0]

\* The writes of the driver's four print calls (main.py lines 39-44): print
\* writes its text and then the line end.
PrintWrites == <<"Command line:", "\n", "argv", "\n", "Settings:", "\n", "settings", "\n">>

\* job_out of the driver: the first object its process constructs.
JobOut == 1

\* What a call remembers of the moment it was made: the files and the streams.
NoPre == [log |-> Absent, ckpt |-> Absent, new |-> Absent, jobDir |-> FALSE,
          out |-> NoStream, err |-> NoStream]

\* The locals of a call: self (slot), the arguments, intro_lines, and pre.
NoFrame == [slot |-> 0, enabled |-> FALSE, continue_job |-> FALSE, is_main |-> FALSE,
            intro_lines |-> <<>>, data |-> <<>>, pre |-> NoPre]

VARIABLES
    units,       \* the processes that run
    mainUnits,   \* the processes the caller designates as main (is_main=True)
    groupDir,    \* logs_and_output/<job_group> exists
    jobDir,      \* logs_and_output/<job_group>/<job_name> exists
    logFile,     \* log_<job_name>.txt
    ckptFile,    \* <job_name>/ckpt.pth
    newFile,     \* <job_name>/ckpt.pth.new
    pc,          \* where each process is: "idle" between calls, "raised" between
                 \* calls when the last call ended in LogAlreadyExistsError
    frame,       \* the locals of the call a process is in (kept while "raised")
    objs,        \* the JobOutput objects of each process
    sysOut,      \* sys.stdout of each process
    sysErr,      \* sys.stderr of each process
    conOut,      \* what reached the console's standard output in this run
    conErr,      \* what reached the console's standard error in this run
    lastWrite,   \* the record of the last write_checkpoint that finished, if no
                 \* later one has begun
    lastConnect, \* where a run records it: per process, the object whose
                 \* connect_streams last rebound the streams, and sys.stdout /
                 \* sys.stderr as they were just before that call
    driver       \* the locals of main.test_job, where the driver runs

vars == <<units, mainUnits, groupDir, jobDir, logFile, ckptFile, newFile,
          pc, frame, objs, sysOut, sysErr, conOut, conErr, lastWrite,
          lastConnect, driver>>

WcPcs == {"wc_open", "wc_write", "wc_exists", "wc_unlink", "wc_rename"}
CtorPcs == {"ctor_check", "ctor_append", "ctor_sinks"}

\* A process that runs is between two calls.
Idle(p) == p \in units /\ pc[p] \in {"idle", "raised"}

InitState ==
    /\ groupDir = FALSE
    /\ jobDir = FALSE
    /\ logFile = Absent
    /\ ckptFile = Absent
    /\ newFile = Absent
    /\ pc \in [Procs -> {"idle"}]
    /\ frame \in [Procs -> {NoFrame}]
    /\ objs \in [Procs -> {[s \in Slots |-> NoObject]}]
    /\ sysOut \in [Procs -> {Console("out")}]
    /\ sysErr \in [Procs -> {Console("err")}]
    /\ conOut \in [Procs -> {<<>>}]
    /\ conErr \in [Procs -> {<<>>}]
    /\ lastWrite = RetNone
    /\ lastConnect \in [Procs -> {NoConnect}]

\* One process, which is the main unit, running any code that uses JobOutput.
Init ==
    /\ units = {"p0"}
    /\ mainUnits = {"p0"}
    /\ driver = NoDriver
    /\ InitState

\* The first free object slot of a process: objects are constructed in order.
FreeSlots(p) == {s \in Slots : ~objs[p][s].alive}
NextSlot(p) == CHOOSE s \in FreeSlots(p) : \A t \in FreeSlots(p) : s <= t

\* A call of process p has returned.
Returns(p) ==
    /\ pc' = [pc EXCEPT ![p] = "idle"]
    /\ frame' = [frame EXCEPT ![p] = NoFrame]

\* The longest log file: MaxLog pieces, and under the driver room for the
\* banner and the prints of each of its runs.
LogCap == IF driver.pc = "none" THEN MaxLog ELSE MaxRuns * (2 + Len(PrintWrites))

\* The files and streams as process p sees them now.
Pre(p) == [log |-> logFile, ckpt |-> ckptFile, new |-> newFile, jobDir |-> jobDir,
           out |-> sysOut[p], err |-> sysErr[p]]

\* ------------------------------------------------------------ __init__
\* A constructor that makes the job directory along with the group directory.
DoCtorBegin_MkJobDir(p, job_name, continue_job, is_main) ==
    /\ Idle(p)
    /\ FreeSlots(p) # {}
    /\ is_main => p \in mainUnits
    /\ groupDir' = TRUE
    /\ jobDir' = (jobDir \/ job_name \notin DisabledNames)
    /\ frame' = [frame EXCEPT ![p] = [NoFrame EXCEPT !.slot = NextSlot(p),
                                         !.enabled = job_name \notin DisabledNames,
                                         !.continue_job = continue_job,
                                         !.is_main = is_main,
                                         !.pre = Pre(p)]]
    /\ pc' = [pc EXCEPT ![p] =
                IF job_name \notin DisabledNames /\ is_main THEN "ctor_check" ELSE "ctor_sinks"]
    /\ UNCHANGED <<units, mainUnits, logFile, ckptFile, newFile,
                   objs, sysOut, sysErr, conOut, conErr, lastWrite>>

\* A constructor that runs the log lifecycle for every enabled job, main or not.
DoCtorBegin_AlwaysChecks(p, job_name, continue_job, is_main) ==
    /\ Idle(p)
    /\ FreeSlots(p) # {}
    /\ is_main => p \in mainUnits
    /\ groupDir' = TRUE
    /\ frame' = [frame EXCEPT ![p] = [NoFrame EXCEPT !.slot = NextSlot(p),
                                         !.enabled = job_name \notin DisabledNames,
                                         !.continue_job = continue_job,
                                         !.is_main = is_main,
                                         !.pre = Pre(p)]]
    /\ pc' = [pc EXCEPT ![p] =
                IF job_name \notin DisabledNames THEN "ctor_check" ELSE "ctor_sinks"]
    /\ UNCHANGED <<units, mainUnits, jobDir, logFile, ckptFile, newFile,
                   objs, sysOut, sysErr, conOut, conErr, lastWrite>>

\* lines 60-70: mkdir of the group directory, enabled, the paths.
DoCtorBegin(p, job_name, continue_job, is_main) ==
    /\ Idle(p)
    /\ FreeSlots(p) # {}
    /\ is_main => p \in mainUnits
    /\ groupDir' = TRUE
    /\ frame' = [frame EXCEPT ![p] = [NoFrame EXCEPT !.slot = NextSlot(p),
                                         !.enabled = job_name \notin DisabledNames,
                                         !.continue_job = continue_job,
                                         !.is_main = is_main,
                                         !.pre = Pre(p)]]
    /\ pc' = [pc EXCEPT ![p] =
                IF job_name \notin DisabledNames /\ is_main THEN "ctor_check" ELSE "ctor_sinks"]
    /\ UNCHANGED <<units, mainUnits, jobDir, logFile, ckptFile, newFile,
                   objs, sysOut, sysErr, conOut, conErr, lastWrite>>

\* JobOutput(...) called by any code.
CtorBegin(p, job_name, continue_job, is_main) ==
    /\ DoCtorBegin(p, job_name, continue_job, is_main)
    /\ UNCHANGED <<lastConnect, driver>>

\* A check that never refuses: an existing log is continued whatever the flag.
CtorCheck_NeverRaises(p, ts) ==
    /\ pc[p] = "ctor_check"
    /\ frame' = [frame EXCEPT ![p].intro_lines =
                    IF logFile.ex THEN ContinueBanner(JOB_GROUP, JobName, ts)
                    ELSE StartBanner(JOB_GROUP, JobName, ts)]
    /\ pc' = [pc EXCEPT ![p] = "ctor_append"]
    /\ UNCHANGED <<units, mainUnits, groupDir, jobDir, logFile, ckptFile, newFile,
                   objs, sysOut, sysErr, conOut, conErr, lastWrite, lastConnect, driver>>

\* A check that writes the starting banner on every run.
CtorCheck_AlwaysStarts(p, ts) ==
    /\ pc[p] = "ctor_check"
    /\ IF logFile.ex /\ ~frame[p].continue_job
       THEN /\ pc' = [pc EXCEPT ![p] = "raised"]
            /\ UNCHANGED frame
       ELSE /\ frame' = [frame EXCEPT ![p].intro_lines = StartBanner(JOB_GROUP, JobName, ts)]
            /\ pc' = [pc EXCEPT ![p] = "ctor_append"]
    /\ UNCHANGED <<units, mainUnits, groupDir, jobDir, logFile, ckptFile, newFile,
                   objs, sysOut, sysErr, conOut, conErr, lastWrite, lastConnect, driver>>

\* A check that takes continue_job=True for "the log is there".
CtorCheck_TrustsFlag(p, ts) ==
    /\ pc[p] = "ctor_check"
    /\ IF frame[p].continue_job
       THEN /\ frame' = [frame EXCEPT ![p].intro_lines = ContinueBanner(JOB_GROUP, JobName, ts)]
            /\ pc' = [pc EXCEPT ![p] = "ctor_append"]
       ELSE IF logFile.ex
            THEN /\ pc' = [pc EXCEPT ![p] = "raised"]
                 /\ UNCHANGED frame
            ELSE /\ frame' = [frame EXCEPT ![p].intro_lines = StartBanner(JOB_GROUP, JobName, ts)]
                 /\ pc' = [pc EXCEPT ![p] = "ctor_append"]
    /\ UNCHANGED <<units, mainUnits, groupDir, jobDir, logFile, ckptFile, newFile,
                   objs, sysOut, sysErr, conOut, conErr, lastWrite, lastConnect, driver>>

\* A check that starts the job again where it should refuse.
CtorCheck_RestartsOnConflict(p, ts) ==
    /\ pc[p] = "ctor_check"
    /\ frame' = [frame EXCEPT ![p].intro_lines =
                    IF logFile.ex /\ frame[p].continue_job
                    THEN ContinueBanner(JOB_GROUP, JobName, ts)
                    ELSE StartBanner(JOB_GROUP, JobName, ts)]
    /\ pc' = [pc EXCEPT ![p] = "ctor_append"]
    /\ UNCHANGED <<units, mainUnits, groupDir, jobDir, logFile, ckptFile, newFile,
                   objs, sysOut, sysErr, conOut, conErr, lastWrite, lastConnect, driver>>

\* lines 74-88: the log file exists? continue, refuse, or start.
CtorCheck(p, ts) ==
    /\ pc[p] = "ctor_check"
    /\ IF logFile.ex
       THEN IF frame[p].continue_job
            THEN /\ frame' = [frame EXCEPT ![p].intro_lines = ContinueBanner(JOB_GROUP, JobName, ts)]
                 /\ pc' = [pc EXCEPT ![p] = "ctor_append"]
            ELSE /\ pc' = [pc EXCEPT ![p] = "raised"]
                 /\ UNCHANGED frame
       ELSE /\ frame' = [frame EXCEPT ![p].intro_lines = StartBanner(JOB_GROUP, JobName, ts)]
            /\ pc' = [pc EXCEPT ![p] = "ctor_append"]
    /\ UNCHANGED <<units, mainUnits, groupDir, jobDir, logFile, ckptFile, newFile,
                   objs, sysOut, sysErr, conOut, conErr, lastWrite, lastConnect, driver>>

\* The log opened with 'w': the banner replaces what was there.
CtorAppend_Truncates(p) ==
    /\ pc[p] = "ctor_append"
    /\ logFile' = File(frame[p].intro_lines)
    /\ pc' = [pc EXCEPT ![p] = "ctor_sinks"]
    /\ UNCHANGED <<units, mainUnits, groupDir, jobDir, ckptFile, newFile,
                   frame, objs, sysOut, sysErr, conOut, conErr, lastWrite, lastConnect, driver>>

\* A starting banner written through an exclusive create (open('x')): the
\* constructor fails when the log file has appeared since the check.
CtorAppend_Exclusive(p) ==
    /\ pc[p] = "ctor_append"
    /\ Len(logFile.data) + Len(frame[p].intro_lines) <= LogCap
    /\ IF logFile.ex /\ frame[p].intro_lines[1].kind = "Starting job"
       THEN /\ pc' = [pc EXCEPT ![p] = "raised"]
            /\ UNCHANGED logFile
       ELSE /\ logFile' = File(logFile.data \o frame[p].intro_lines)
            /\ pc' = [pc EXCEPT ![p] = "ctor_sinks"]
    /\ UNCHANGED <<units, mainUnits, groupDir, jobDir, ckptFile, newFile,
                   frame, objs, sysOut, sysErr, conOut, conErr, lastWrite, lastConnect, driver>>

\* line 89: open('a+') creates the file when it is missing; writelines appends.
CtorAppend(p) ==
    /\ pc[p] = "ctor_append"
    /\ Len(logFile.data) + Len(frame[p].intro_lines) <= LogCap
    /\ logFile' = File(logFile.data \o frame[p].intro_lines)
    /\ pc' = [pc EXCEPT ![p] = "ctor_sinks"]
    /\ UNCHANGED <<units, mainUnits, groupDir, jobDir, ckptFile, newFile,
                   frame, objs, sysOut, sysErr, conOut, conErr, lastWrite, lastConnect, driver>>

\* lines 91-104: the sinks keep the sys.stdout / sys.stderr of this moment.
\* The is_main of a disabled object is never read (line 145 tests
\* checkpoint_path first), so disabled objects are kept as one value.
NewObject(is_main, enabled, out, err) ==
    IF enabled
    THEN [alive |-> TRUE, is_main |-> is_main, enabled |-> TRUE,
          cls |-> IF is_main THEN "_LogHelper" ELSE "_LogSuppress",
          out |-> out, err |-> err]
    ELSE [alive |-> TRUE, is_main |-> FALSE, enabled |-> FALSE,
          cls |-> "None", out |-> NoStream, err |-> NoStream]

CtorSinks(p) ==
    /\ pc[p] = "ctor_sinks"
    /\ objs' = [objs EXCEPT ![p][frame[p].slot] =
                   NewObject(frame[p].is_main, frame[p].enabled, sysOut[p], sysErr[p])]
    /\ Returns(p)
    /\ UNCHANGED <<units, mainUnits, groupDir, jobDir, logFile, ckptFile, newFile,
                   sysOut, sysErr, conOut, conErr, lastWrite, lastConnect, driver>>

\* ------------------------------------------------------ checkpoint reads
\* lines 123-126: what checkpoint_exists returns.
CheckpointExistsValue(o, ckpt) == o.enabled /\ ckpt.ex

checkpoint_exists(p, s) ==
    /\ Idle(p)
    /\ objs[p][s].alive
    /\ Returns(p)
    /\ UNCHANGED <<units, mainUnits, groupDir, jobDir, logFile, ckptFile, newFile,
                   objs, sysOut, sysErr, conOut, conErr, lastWrite, lastConnect, driver>>

\* A read that does not ask whether the file exists.
ReadCheckpointValue_NoExistsCheck(o, ckpt) ==
    IF o.enabled THEN Deserialize(ckpt.data) ELSE RetNone

\* lines 134-137: what read_checkpoint returns.
ReadCheckpointValue(o, ckpt) ==
    IF o.enabled /\ CheckpointExistsValue(o, ckpt)
    THEN Deserialize(ckpt.data)
    ELSE RetNone

read_checkpoint(p, s) ==
    /\ Idle(p)
    /\ objs[p][s].alive
    /\ Returns(p)
    /\ UNCHANGED <<units, mainUnits, groupDir, jobDir, logFile, ckptFile, newFile,
                   objs, sysOut, sysErr, conOut, conErr, lastWrite, lastConnect, driver>>

\* ----------------------------------------------------- write_checkpoint
\* lines 145-146: only an enabled main object writes; mkdir of the job directory.
\* Two main units never write at once (the caller's duty, __init__ docstring).
DoWcBegin(p, s, data) ==
    /\ Idle(p)
    /\ objs[p][s].alive
    /\ IF objs[p][s].enabled /\ objs[p][s].is_main
       THEN /\ \A q \in units \ {p} : pc[q] \notin WcPcs
            /\ groupDir' = TRUE
            /\ jobDir' = TRUE
            /\ frame' = [frame EXCEPT ![p] = [NoFrame EXCEPT !.slot = s, !.data = data,
                                                 !.pre = Pre(p)]]
            /\ pc' = [pc EXCEPT ![p] = "wc_open"]
            /\ lastWrite' = RetNone
       ELSE /\ Returns(p)
            /\ UNCHANGED <<groupDir, jobDir, lastWrite>>
    /\ UNCHANGED <<units, mainUnits, logFile, ckptFile, newFile,
                   objs, sysOut, sysErr, conOut, conErr>>

\* write_checkpoint(data) called by any code.
WcBegin(p, s, data) ==
    /\ DoWcBegin(p, s, data)
    /\ UNCHANGED <<lastConnect, driver>>

\* The record written in place: checkpoint_path itself is opened with 'wb'.
WcOpen_InPlace(p) ==
    /\ pc[p] = "wc_open"
    /\ ckptFile' = File(<<>>)
    /\ newFile' = File(<<>>)
    /\ pc' = [pc EXCEPT ![p] = "wc_write"]
    /\ UNCHANGED <<units, mainUnits, groupDir, jobDir, logFile,
                   frame, objs, sysOut, sysErr, conOut, conErr, lastWrite, lastConnect, driver>>

\* The temporary file opened for exclusive creation ('xb'): the open fails
\* while a file is at the '.new' path.
WcOpen_Exclusive(p) ==
    /\ pc[p] = "wc_open"
    /\ ~newFile.ex
    /\ newFile' = File(<<>>)
    /\ pc' = [pc EXCEPT ![p] = "wc_write"]
    /\ UNCHANGED <<units, mainUnits, groupDir, jobDir, logFile, ckptFile,
                   frame, objs, sysOut, sysErr, conOut, conErr, lastWrite, lastConnect, driver>>

\* lines 148-149: open('wb') creates or truncates the temporary file.
WcOpen(p) ==
    /\ pc[p] = "wc_open"
    /\ newFile' = File(<<>>)
    /\ pc' = [pc EXCEPT ![p] = "wc_write"]
    /\ UNCHANGED <<units, mainUnits, groupDir, jobDir, logFile, ckptFile,
                   frame, objs, sysOut, sysErr, conOut, conErr, lastWrite, lastConnect, driver>>

\* line 150: torch.save writes the record piece by piece; the file is closed
\* after the last piece.
WcWrite(p) ==
    /\ pc[p] = "wc_write"
    /\ LET bytes == Serialize(frame[p].data)
           n == Len(newFile.data)
       IN  /\ newFile' = File(Append(newFile.data, bytes[n + 1]))
           /\ pc' = [pc EXCEPT ![p] = IF n + 1 = Len(bytes) THEN "wc_exists" ELSE "wc_write"]
    /\ UNCHANGED <<units, mainUnits, groupDir, jobDir, logFile, ckptFile,
                   frame, objs, sysOut, sysErr, conOut, conErr, lastWrite, lastConnect, driver>>

\* line 152
WcExists(p) ==
    /\ pc[p] = "wc_exists"
    /\ pc' = [pc EXCEPT ![p] = IF ckptFile.ex THEN "wc_unlink" ELSE "wc_rename"]
    /\ UNCHANGED <<units, mainUnits, groupDir, jobDir, logFile, ckptFile, newFile,
                   frame, objs, sysOut, sysErr, conOut, conErr, lastWrite, lastConnect, driver>>

\* line 153
WcUnlink(p) ==
    /\ pc[p] = "wc_unlink"
    /\ ckptFile' = Absent
    /\ pc' = [pc EXCEPT ![p] = "wc_rename"]
    /\ UNCHANGED <<units, mainUnits, groupDir, jobDir, logFile, newFile,
                   frame, objs, sysOut, sysErr, conOut, conErr, lastWrite, lastConnect, driver>>

\* line 155
WcRename(p) ==
    /\ pc[p] = "wc_rename"
    /\ ckptFile' = newFile
    /\ newFile' = Absent
    /\ lastWrite' = RetValue(frame[p].data)
    /\ Returns(p)
    /\ UNCHANGED <<units, mainUnits, groupDir, jobDir, logFile,
                   objs, sysOut, sysErr, conOut, conErr, lastConnect, driver>>

\* ------------------------------------------------ get_output_file_path
\* A disabled job that is given a directory all the same.
get_output_file_path_AlwaysMkdir(p, s) ==
    /\ Idle(p)
    /\ objs[p][s].alive
    /\ groupDir' = TRUE
    /\ jobDir' = TRUE
    /\ pc' = [pc EXCEPT ![p] = "idle"]
    /\ frame' = [frame EXCEPT ![p] = NoFrame]
    /\ UNCHANGED <<units, mainUnits, logFile, ckptFile, newFile,
                   objs, sysOut, sysErr, conOut, conErr, lastWrite, lastConnect, driver>>

\* lines 164-168: what get_output_file_path returns (job_dir / filename, or None).
GetOutputFilePathValue(o) ==
    IF o.enabled THEN [tag |-> "path", val |-> <<>>] ELSE RetNone

\* lines 164-168
get_output_file_path(p, s) ==
    /\ Idle(p)
    /\ objs[p][s].alive
    /\ IF objs[p][s].enabled
       THEN /\ groupDir' = TRUE
            /\ jobDir' = TRUE
       ELSE UNCHANGED <<groupDir, jobDir>>
    /\ Returns(p)
    /\ UNCHANGED <<units, mainUnits, logFile, ckptFile, newFile,
                   objs, sysOut, sysErr, conOut, conErr, lastWrite, lastConnect, driver>>

\* ------------------------------------------------------------- streams
\* A connect_streams that captures the streams it replaces, at every call.
DoConnectStreams_Recaptures(p, s) ==
    /\ Idle(p)
    /\ objs[p][s].alive
    /\ IF objs[p][s].cls # "None"
       THEN /\ objs' = [objs EXCEPT ![p][s].out = sysOut[p], ![p][s].err = sysErr[p]]
            /\ sysOut' = [sysOut EXCEPT ![p] = Sink(s, "out")]
            /\ sysErr' = [sysErr EXCEPT ![p] = Sink(s, "err")]
       ELSE UNCHANGED <<objs, sysOut, sysErr>>
    /\ Returns(p)
    /\ UNCHANGED <<units, mainUnits, groupDir, jobDir, logFile, ckptFile, newFile,
                   conOut, conErr, lastWrite>>

\* lines 106-110
DoConnectStreams(p, s) ==
    /\ Idle(p)
    /\ objs[p][s].alive
    /\ IF objs[p][s].cls # "None"
       THEN /\ sysOut' = [sysOut EXCEPT ![p] = Sink(s, "out")]
            /\ sysErr' = [sysErr EXCEPT ![p] = Sink(s, "err")]
       ELSE UNCHANGED <<sysOut, sysErr>>
    /\ Returns(p)
    /\ UNCHANGED <<units, mainUnits, groupDir, jobDir, logFile, ckptFile, newFile,
                   objs, conOut, conErr, lastWrite>>

\* connect_streams() called by any code.
connect_streams(p, s) ==
    /\ DoConnectStreams(p, s)
    /\ UNCHANGED <<lastConnect, driver>>

\* lines 112-116
DoDisconnectStreams(p, s) ==
    /\ Idle(p)
    /\ objs[p][s].alive
    /\ IF objs[p][s].cls # "None"
       THEN /\ sysOut' = [sysOut EXCEPT ![p] = objs[p][s].out]
            /\ sysErr' = [sysErr EXCEPT ![p] = objs[p][s].err]
       ELSE UNCHANGED <<sysOut, sysErr>>
    /\ Returns(p)
    /\ UNCHANGED <<units, mainUnits, groupDir, jobDir, logFile, ckptFile, newFile,
                   objs, conOut, conErr, lastWrite>>

\* disconnect_streams() called by any code.
disconnect_streams(p, s) ==
    /\ DoDisconnectStreams(p, s)
    /\ UNCHANGED <<lastConnect, driver>>

\* The stream a sink passes its text on to (the .stream of lines 15 and 28).
Inner(p, st) == IF st.w = "out" THEN objs[p][st.slot].out ELSE objs[p][st.slot].err

\* _LogHelper.write (lines 17-20) appends to the log file and writes to its
\* stream; _LogSuppress.write (lines 30-31) does nothing.  LogAppends counts the
\* appends one write to stream st makes; Reaches is the console stream the text
\* ends on, or NoStream.
\* A _LogHelper.write that writes to its stream and forgets the file.
LogAppends_StreamOnly(p, st) == 0

RECURSIVE LogAppends(_, _)
LogAppends(p, st) ==
    IF st.k = "sink" /\ objs[p][st.slot].cls = "_LogHelper"
    THEN 1 + LogAppends(p, Inner(p, st))
    ELSE 0

\* A _LogSuppress.write that passes the text on to its stream.
RECURSIVE Reaches_SuppressForwards(_, _)
Reaches_SuppressForwards(p, st) ==
    IF st.k = "sink" THEN Reaches_SuppressForwards(p, Inner(p, st)) ELSE st

RECURSIVE Reaches(_, _)
Reaches(p, st) ==
    IF st.k = "sink"
    THEN IF objs[p][st.slot].cls = "_LogHelper" THEN Reaches(p, Inner(p, st)) ELSE NoStream
    ELSE st

Repeat(x, n) == [i \in 1..n |-> x]

\* sys.stdout.write(x) or sys.stderr.write(x) while a sink is connected.
DoStdWrite(p, w, x) ==
    /\ Idle(p)
    /\ LET st == IF w = "out" THEN sysOut[p] ELSE sysErr[p]
           n == LogAppends(p, st)
           to == Reaches(p, st)
       IN  /\ st.k = "sink"
           /\ Len(logFile.data) + n <= LogCap
           /\ logFile' = IF n > 0 THEN File(logFile.data \o Repeat(Text(x), n)) ELSE logFile
           /\ conOut' = IF to = Console("out")
                        THEN [conOut EXCEPT ![p] = Append(@, Text(x))] ELSE conOut
           /\ conErr' = IF to = Console("err")
                        THEN [conErr EXCEPT ![p] = Append(@, Text(x))] ELSE conErr
    /\ Returns(p)
    /\ UNCHANGED <<units, mainUnits, groupDir, jobDir, ckptFile, newFile,
                   objs, sysOut, sysErr, lastWrite>>

\* A write made by any code.
StdWrite(p, w, x) ==
    /\ DoStdWrite(p, w, x)
    /\ UNCHANGED <<lastConnect, driver>>

\* sys.stdout.flush() / sys.stderr.flush() while a sink is connected:
\* lines 22-23 and 33-34 move no text.
StdFlush(p, w) ==
    /\ Idle(p)
    /\ (IF w = "out" THEN sysOut[p] ELSE sysErr[p]).k = "sink"
    /\ Returns(p)
    /\ UNCHANGED <<units, mainUnits, groupDir, jobDir, logFile, ckptFile, newFile,
                   objs, sysOut, sysErr, conOut, conErr, lastWrite, lastConnect, driver>>

\* ------------------------------------------------------------- the process
\* The process is killed (or ends): its memory is gone, the files stay.
DoInterrupt(p) ==
    /\ p \in units
    /\ pc' = [pc EXCEPT ![p] = "idle"]
    /\ frame' = [frame EXCEPT ![p] = NoFrame]
    /\ objs' = [objs EXCEPT ![p] = [s \in Slots |-> NoObject]]
    /\ sysOut' = [sysOut EXCEPT ![p] = Console("out")]
    /\ sysErr' = [sysErr EXCEPT ![p] = Console("err")]
    /\ conOut' = [conOut EXCEPT ![p] = <<>>]
    /\ conErr' = [conErr EXCEPT ![p] = <<>>]
    /\ UNCHANGED <<units, mainUnits, groupDir, jobDir, logFile, ckptFile, newFile, lastWrite>>

\* The process of any code is killed.
Interrupt(p) ==
    /\ DoInterrupt(p)
    /\ UNCHANGED <<lastConnect, driver>>

Next ==
    \E p \in Procs :
        \/ \E n \in JobNames, c \in BOOLEAN, m \in BOOLEAN : CtorBegin(p, n, c, m)
        \/ \E ts \in Times : CtorCheck(p, ts)
        \/ CtorAppend(p)
        \/ CtorSinks(p)
        \/ \E s \in Slots : checkpoint_exists(p, s)
        \/ \E s \in Slots : read_checkpoint(p, s)
        \/ \E s \in Slots, R \in Records : WcBegin(p, s, R)
        \/ WcOpen(p)
        \/ WcWrite(p)
        \/ WcExists(p)
        \/ WcUnlink(p)
        \/ WcRename(p)
        \/ \E s \in Slots : get_output_file_path(p, s)
        \/ \E s \in Slots : connect_streams(p, s)
        \/ \E s \in Slots : disconnect_streams(p, s)
        \/ \E w \in {"out", "err"}, x \in Texts : StdWrite(p, w, x)
        \/ \E w \in {"out", "err"} : StdFlush(p, w)
        \/ Interrupt(p)

Spec == Init /\ [][Next]_vars

\* ------------------------------------------- two processes, both main
\* Two processes that are both told is_main=True construct JobOutput objects
\* of the one job; their constructor steps interleave.
RaceInit ==
    /\ units = {"p0", "p1"}
    /\ mainUnits = {"p0", "p1"}
    /\ driver = NoDriver
    /\ InitState

RaceNext ==
    \E p \in Procs :
        \/ \E n \in JobNames, c \in BOOLEAN, m \in BOOLEAN : CtorBegin(p, n, c, m)
        \/ \E ts \in Times : CtorCheck(p, ts)
        \/ CtorAppend(p)
        \/ CtorSinks(p)
        \/ Interrupt(p)

SpecRace == RaceInit /\ [][RaceNext]_vars

\* ------------------------------------------------- the driver, main.py
\* One process runs main.test_job again and again on one job: the first run
\* without --continue_from_check, every later run with it.
DriverInit ==
    /\ units = {"p0"}
    /\ mainUnits = {"p0"}
    /\ driver = [NoDriver EXCEPT !.pc = "launch"]
    /\ InitState

\* datetime.datetime.now() in the driver: the k-th run reads time k.
Now == driver.run

\* lines 14-22: a run starts, with its options.
Main14(p) ==
    /\ p \in units
    /\ driver.pc = "launch"
    /\ driver.run < MaxRuns
    /\ driver' = [NoDriver EXCEPT !.pc = "l33",
                                  !.run = driver.run + 1,
                                  !.continue_from_check = (driver.run >= 1)]
    /\ UNCHANGED <<units, mainUnits, groupDir, jobDir, logFile, ckptFile, newFile,
                   pc, frame, objs, sysOut, sysErr, conOut, conErr, lastWrite, lastConnect>>

\* line 33
Main33(p) ==
    /\ driver.pc = "l33"
    /\ DoCtorBegin(p, JobName, driver.continue_from_check, TRUE)
    /\ driver' = [driver EXCEPT !.pc = "l35"]
    /\ UNCHANGED lastConnect

\* line 35, once the constructor has returned
Main35(p) ==
    /\ driver.pc = "l35"
    /\ pc[p] = "idle"
    /\ DoConnectStreams(p, JobOut)
    /\ driver' = [driver EXCEPT !.pc = "l39"]
    /\ UNCHANGED lastConnect

\* lines 39-44: the next write of the four print calls
Main39(p) ==
    /\ driver.pc = "l39"
    /\ DoStdWrite(p, "out", PrintWrites[driver.prints + 1])
    /\ driver' = [driver EXCEPT !.prints = @ + 1,
                                !.pc = IF driver.prints + 1 = Len(PrintWrites)
                                       THEN "l47" ELSE "l39"]
    /\ UNCHANGED lastConnect

\* A driver that starts from dict(timestamps=[]) on every run.
Main47_StartsEmpty(p) ==
    /\ p \in units
    /\ driver.pc = "l47"
    /\ pc[p] = "idle"
    /\ driver' = [driver EXCEPT !.checkpoint = <<Now>>, !.pc = "l56"]
    /\ UNCHANGED <<units, mainUnits, groupDir, jobDir, logFile, ckptFile, newFile,
                   pc, frame, objs, sysOut, sysErr, conOut, conErr, lastWrite, lastConnect>>

\* What lines 47-52 leave in checkpoint: the record read, or the empty one.
Loaded(p) ==
    IF driver.continue_from_check /\ CheckpointExistsValue(objs[p][JobOut], ckptFile)
    THEN ReadCheckpointValue(objs[p][JobOut], ckptFile)
    ELSE RetValue(<<>>)

\* lines 47-55: checkpoint is read or started, and the time appended.
Main47(p) ==
    /\ p \in units
    /\ driver.pc = "l47"
    /\ pc[p] = "idle"
    /\ Loaded(p).tag = "value"
    /\ driver' = [driver EXCEPT !.checkpoint = Append(Loaded(p).val, Now), !.pc = "l56"]
    /\ UNCHANGED <<units, mainUnits, groupDir, jobDir, logFile, ckptFile, newFile,
                   pc, frame, objs, sysOut, sysErr, conOut, conErr, lastWrite, lastConnect>>

\* line 56
Main56(p) ==
    /\ driver.pc = "l56"
    /\ DoWcBegin(p, JobOut, driver.checkpoint)
    /\ driver' = [driver EXCEPT !.pc = "end"]
    /\ UNCHANGED lastConnect

\* The run ends: after line 56 has returned, or by the exception of line 33
\* or of line 50 / 55.
MainExit(p) ==
    /\ \/ driver.pc = "end" /\ pc[p] = "idle"
       \/ pc[p] = "raised"
       \/ driver.pc = "l47" /\ pc[p] = "idle" /\ Loaded(p).tag # "value"
    /\ DoInterrupt(p)
    /\ driver' = [NoDriver EXCEPT !.pc = "launch", !.run = driver.run]
    /\ UNCHANGED lastConnect

DriverNext ==
    \E p \in Procs :
        \/ Main14(p)
        \/ Main33(p)
        \/ CtorCheck(p, Now)
        \/ CtorAppend(p)
        \/ CtorSinks(p)
        \/ Main35(p)
        \/ Main39(p)
        \/ Main47(p)
        \/ Main56(p)
        \/ WcOpen(p)
        \/ WcWrite(p)
        \/ WcExists(p)
        \/ WcUnlink(p)
        \/ WcRename(p)
        \/ MainExit(p)

SpecDriver == DriverInit /\ [][DriverNext]_vars

\* ------------------------------------------- the streams, with a record
\* connect_streams() that puts on record what it replaced.  A call that finds
\* the streams already bound to the object's own sinks leaves the record.
ConnectRecorded(p, s) ==
    /\ DoConnectStreams(p, s)
    /\ lastConnect' =
          IF objs[p][s].cls = "None" \/ (sysOut[p] = Sink(s, "out") /\ sysErr[p] = Sink(s, "err"))
          THEN lastConnect
          ELSE [lastConnect EXCEPT ![p] = [slot |-> s, out |-> sysOut[p], err |-> sysErr[p]]]
    /\ UNCHANGED driver

\* disconnect_streams() of an enabled object ends what is on record.
DisconnectRecorded(p, s) ==
    /\ DoDisconnectStreams(p, s)
    /\ lastConnect' = IF objs[p][s].cls = "None" THEN lastConnect
                      ELSE [lastConnect EXCEPT ![p] = NoConnect]
    /\ UNCHANGED driver

InterruptRecorded(p) ==
    /\ DoInterrupt(p)
    /\ lastConnect' = [lastConnect EXCEPT ![p] = NoConnect]
    /\ UNCHANGED driver

\* Any code that constructs objects, connects and disconnects them and prints.
\* The checkpoint operations are left out: they neither read nor bind a stream.
StreamsNext ==
    \E p \in Procs :
        \/ \E n \in JobNames, c \in BOOLEAN, m \in BOOLEAN : CtorBegin(p, n, c, m)
        \/ \E ts \in Times : CtorCheck(p, ts)
        \/ CtorAppend(p)
        \/ CtorSinks(p)
        \/ \E s \in Slots : ConnectRecorded(p, s)
        \/ \E s \in Slots : DisconnectRecorded(p, s)
        \/ \E w \in {"out", "err"}, x \in Texts : StdWrite(p, w, x)
        \/ \E w \in {"out", "err"} : StdFlush(p, w)
        \/ InterruptRecorded(p)

SpecStreams == Init /\ [][StreamsNext]_vars

\* ===================================================================
\* Properties
\* ===================================================================
IsPrefix(a, b) == Len(a) <= Len(b) /\ SubSeq(b, 1, Len(a)) = a
IsStrictPrefix(a, b) == IsPrefix(a, b) /\ Len(a) < Len(b)

\* An enabled object as a fresh process would construct it.
FreshObject(is_main) == NewObject(is_main, TRUE, Console("out"), Console("err"))

\* The objects that exist.
Alive == {<<p, s>> \in units \X Slots : objs[p][s].alive}

\* ---------------------------------------------------------------- C1
\* C1: in every state, also inside write_checkpoint and after an interruption,
\* checkpoint_path is absent or holds one complete record, and whatever a step
\* puts at checkpoint_path is the complete serialized record that was passed to
\* the write_checkpoint call making the step; a partial record sits only at the
\* '.new' path.
CkptAbsentOrComplete ==
    ckptFile.ex => /\ Deserialize(ckptFile.data).tag = "value"
                   /\ Deserialize(ckptFile.data).val \in Records
CkptInstalledByRename ==
    (ckptFile' # ckptFile /\ ckptFile'.ex) =>
        \E p \in units : /\ pc[p] = "wc_rename"
                         /\ ckptFile' = File(Serialize(frame[p].data))
C1_CheckpointAbsentOrComplete ==
    [](CkptAbsentOrComplete) /\ [][CkptInstalledByRename]_vars

\* A complete checkpoint is in place while an interrupted call has left a
\* partial record at the '.new' path.
C1_Witness ==
    /\ ckptFile.ex
    /\ newFile.ex
    /\ Deserialize(newFile.data).tag = "raise"
    /\ \A p \in units : Idle(p)

\* ---------------------------------------------------------------- C2
\* C2: while write_checkpoint of an enabled main unit runs and a checkpoint
\* existed when it began, checkpoint_path holds the old record or the new one
\* at every instant.
C2_OldOrNewVisible ==
    \A p \in units :
        (pc[p] \in WcPcs /\ frame[p].pre.ckpt.ex) =>
            ckptFile \in {frame[p].pre.ckpt, File(Serialize(frame[p].data))}

\* ---------------------------------------------------------------- C3
\* C3: when write_checkpoint is interrupted after the temporary file is fully
\* written and before the rename has happened, checkpoint_path shows what it
\* showed when the call began and the '.new' file is left on disk.
AfterTempWritten == {"wc_exists", "wc_unlink", "wc_rename"}
C3_InterruptKeepsOld ==
    [][\A p \in units :
          (pc[p] \in AfterTempWritten /\ Interrupt(p)) =>
              (ckptFile' = frame[p].pre.ckpt /\ newFile'.ex)]_vars

\* ---------------------------------------------------------------- C4
\* C4: when write_checkpoint is interrupted after it began and before the
\* rename, read_checkpoint afterwards returns the record stored before the
\* call, or None; never a failure to parse a partial record.
C4_ReadAfterInterrupt ==
    [][\A p \in units :
          (pc[p] \in WcPcs /\ Interrupt(p)) =>
              \A m \in BOOLEAN :
                  ReadCheckpointValue(FreshObject(m), ckptFile') \in
                      {ReadCheckpointValue(FreshObject(m), frame[p].pre.ckpt), RetNone}]_vars

\* A call that replaces an existing checkpoint has written part of the new
\* record to the '.new' file: an interruption here leaves that part behind.
C4_Witness ==
    \E p \in units :
        /\ pc[p] = "wc_write"
        /\ frame[p].pre.ckpt.ex
        /\ newFile.ex
        /\ Len(newFile.data) >= 1
        /\ frame[p].data # Deserialize(frame[p].pre.ckpt.data).val

\* ---------------------------------------------------------------- C5
\* C5: after write_checkpoint(R) of an enabled main unit has completed, and
\* until another write begins, read_checkpoint of every enabled object returns
\* R and checkpoint_exists returns true.
C5_RoundTrip ==
    lastWrite.tag = "value" =>
        /\ \A m \in BOOLEAN :
              /\ ReadCheckpointValue(FreshObject(m), ckptFile) = lastWrite
              /\ CheckpointExistsValue(FreshObject(m), ckptFile)
        /\ \A o \in Alive :
              objs[o[1]][o[2]].enabled =>
                  /\ ReadCheckpointValue(objs[o[1]][o[2]], ckptFile) = lastWrite
                  /\ CheckpointExistsValue(objs[o[1]][o[2]], ckptFile)

\* A non-empty record has been written by a main object that is still there.
C5_Witness ==
    /\ lastWrite = RetValue(<<1>>)
    /\ \E o \in Alive : objs[o[1]][o[2]].enabled /\ objs[o[1]][o[2]].is_main

\* ------------------------------------------------------------ C6 - C8
\* The constructor call of p is one of an enabled main unit.
MainCtor(p) == frame[p].is_main /\ frame[p].enabled
\* The constructor call of p found the log file there and may not continue.
Conflict(p) == MainCtor(p) /\ frame[p].pre.log.ex /\ ~frame[p].continue_job

\* C6: construction as main unit of an enabled job with continue_job=False and
\* an existing log file raises LogAlreadyExistsError and never completes; when
\* it has raised, the log file is what it was, and the checkpoint file, its
\* '.new' file, the job directory and sys.stdout / sys.stderr are as before the
\* call, and no object exists.
RaisedLeavesAllAsWas ==
    \A p \in units :
        pc[p] = "raised" =>
            /\ Conflict(p)
            /\ logFile = frame[p].pre.log
            /\ ckptFile = frame[p].pre.ckpt
            /\ newFile = frame[p].pre.new
            /\ jobDir = frame[p].pre.jobDir
            /\ sysOut[p] = frame[p].pre.out
            /\ sysErr[p] = frame[p].pre.err
            /\ ~objs[p][frame[p].slot].alive
ConflictEndsRaised ==
    \A p \in units :
        (pc[p] \in CtorPcs /\ Conflict(p) /\ pc'[p] # pc[p]) =>
            (pc'[p] = "raised" \/ Interrupt(p))
C6_ConflictRaises ==
    [](RaisedLeavesAllAsWas) /\ [][ConflictEndsRaised]_vars

\* A construction has just raised over a log file that holds more than the
\* first banner.
C6_Witness ==
    \E p \in units : pc[p] = "raised" /\ Len(logFile.data) >= 2

\* C7: construction as main unit of an enabled job with continue_job=True and
\* an existing log file does not raise, and when it completes the log file is
\* its content before the call followed by exactly one continuation banner
\* (the '=====' line, then the 'Continuing job' line).
Continues(p) == MainCtor(p) /\ frame[p].pre.log.ex /\ frame[p].continue_job
C7_ContinueAppendsBanner ==
    [][\A p \in units :
          /\ (pc[p] \in CtorPcs /\ Continues(p)) => pc'[p] # "raised"
          /\ (CtorSinks(p) /\ Continues(p)) =>
                /\ objs'[p][frame[p].slot].alive
                /\ IsStrictPrefix(frame[p].pre.log.data, logFile'.data)
                /\ \E ts \in Times :
                      logFile' = File(frame[p].pre.log.data
                                      \o ContinueBanner(JOB_GROUP, JobName, ts))]_vars

\* A continuing construction is about to complete.
C7_Witness ==
    \E p \in units : pc[p] = "ctor_sinks" /\ Continues(p)

\* C8: construction as main unit of an enabled job when no log file exists
\* does not raise, whatever continue_job is, and when it completes the log
\* file exists and holds exactly the one 'Starting job' banner line.
Fresh(p) == MainCtor(p) /\ ~frame[p].pre.log.ex
C8_FreshWritesOneBanner ==
    [][\A p \in units :
          /\ (pc[p] \in CtorPcs /\ Fresh(p)) => pc'[p] # "raised"
          /\ (CtorSinks(p) /\ Fresh(p)) =>
                /\ objs'[p][frame[p].slot].alive
                /\ \E ts \in Times :
                      logFile' = File(StartBanner(JOB_GROUP, JobName, ts))]_vars

\* A construction with continue_job=True that found no log file is about to
\* complete.
C8_Witness ==
    \E p \in units : pc[p] = "ctor_sinks" /\ Fresh(p) /\ frame[p].continue_job

\* ---------------------------------------------------------------- C9
\* C9: the log file is append-only: no step deletes it or shortens it, and its
\* content before a step is a prefix of its content after the step.
C9_LogAppendOnly ==
    [][logFile.ex => (logFile'.ex /\ IsPrefix(logFile.data, logFile'.data))]_vars

\* The log has been continued, and a checkpoint has been written since it was
\* created.
C9_Witness ==
    /\ Len(logFile.data) = MaxLog
    /\ logFile.data[2].kind = "====="
    /\ ckptFile.ex

\* --------------------------------------------------------------- C10
\* A step of process p that is an operation of its object s.
OperationOf(p, s) ==
    \/ \E R \in Records : WcBegin(p, s, R)
    \/ checkpoint_exists(p, s)
    \/ read_checkpoint(p, s)
    \/ get_output_file_path(p, s)
    \/ connect_streams(p, s)
    \/ disconnect_streams(p, s)
    \/ /\ sysOut[p] = Sink(s, "out")
       /\ \E x \in Texts : StdWrite(p, "out", x)
    \/ /\ sysErr[p] = Sink(s, "err")
       /\ \E x \in Texts : StdWrite(p, "err", x)
    \/ /\ sysOut[p] = Sink(s, "out") \/ sysErr[p] = Sink(s, "err")
       /\ \E w \in {"out", "err"} : StdFlush(p, w)

\* C10: neither the construction of an enabled object with is_main=False nor
\* any operation of it changes the log file, the checkpoint file, its '.new'
\* file or what has reached the console, and its write_checkpoint returns
\* without writing.
C10_NonMainWritesNothing ==
    [][\A p \in units :
          /\ (pc[p] \in CtorPcs /\ frame[p].enabled /\ ~frame[p].is_main /\ CtorSinks(p)) =>
                 /\ logFile = frame[p].pre.log /\ ckptFile = frame[p].pre.ckpt
                 /\ newFile = frame[p].pre.new
                 /\ UNCHANGED <<logFile, ckptFile, newFile, conOut, conErr>>
          /\ \A s \in Slots :
                (objs[p][s].alive /\ objs[p][s].enabled /\ ~objs[p][s].is_main
                    /\ OperationOf(p, s)) =>
                       /\ UNCHANGED <<logFile, ckptFile, newFile, conOut, conErr>>
                       /\ pc'[p] = "idle"]_vars

\* The sinks of a non-main object are connected while a log file exists.
C10_Witness ==
    \E p \in units, s \in Slots :
        /\ objs[p][s].alive /\ objs[p][s].enabled /\ ~objs[p][s].is_main
        /\ sysOut[p] = Sink(s, "out")
        /\ sysErr[p] = Sink(s, "err")
        /\ logFile.ex
        /\ Idle(p)

\* --------------------------------------------------------------- C11
\* A step of process p that is one of the five operations on its object s.
DisabledOperation(p, s) ==
    \/ checkpoint_exists(p, s)
    \/ read_checkpoint(p, s)
    \/ \E R \in Records : WcBegin(p, s, R)
    \/ connect_streams(p, s)
    \/ get_output_file_path(p, s)

\* C11: on an object whose job_name is '' or 'none', each of checkpoint_exists,
\* read_checkpoint, write_checkpoint, connect_streams and get_output_file_path
\* returns at once and leaves the directories, the files, sys.stdout /
\* sys.stderr and the console as they were; checkpoint_exists returns False,
\* read_checkpoint and get_output_file_path return None.
C11_DisabledNoOps ==
    [][\A p \in units, s \in Slots :
          (objs[p][s].alive /\ ~objs[p][s].enabled /\ DisabledOperation(p, s)) =>
              /\ UNCHANGED <<groupDir, jobDir, logFile, ckptFile, newFile,
                             sysOut, sysErr, conOut, conErr>>
              /\ pc'[p] = "idle"
              /\ CheckpointExistsValue(objs[p][s], ckptFile) = FALSE
              /\ ReadCheckpointValue(objs[p][s], ckptFile) = RetNone
              /\ GetOutputFilePathValue(objs[p][s]) = RetNone]_vars

\* A disabled object next to a connected enabled one, with a checkpoint on
\* disk.
C11_Witness ==
    \E p \in units, s \in Slots :
        /\ objs[p][s].alive /\ ~objs[p][s].enabled
        /\ Idle(p)
        /\ ckptFile.ex
        /\ sysOut[p].k = "sink"

\* --------------------------------------------------------------- C12
\* C12: disconnect_streams of the object whose connect_streams last rebound
\* the streams sets sys.stdout and sys.stderr to what they were immediately
\* before that connect_streams call, whatever objects were constructed,
\* connected or disconnected before it.
C12_DisconnectRestores ==
    [][\A p \in units, s \in Slots :
          (lastConnect[p].slot = s /\ DisconnectRecorded(p, s)) =>
              /\ sysOut'[p] = lastConnect[p].out
              /\ sysErr'[p] = lastConnect[p].err]_vars

\* --------------------------------------------------------------- C13
\* The timestamps of runs 1..n, in run order.
TimestampsOfRuns(n) == [i \in 1..n |-> i]

\* C13: when the n-th run of the driver has completed (first run without
\* --continue_from_check, later runs with it), the checkpoint file holds
\* exactly the timestamps of runs 1..n in run order; and what a run appends to
\* is what the earlier runs left.
C13_DriverAccumulates ==
    \A p \in units :
        /\ (driver.run >= 1 /\ (driver.pc = "launch" \/ (driver.pc = "end" /\ pc[p] = "idle"))) =>
              /\ ckptFile.ex
              /\ Deserialize(ckptFile.data) = RetValue(TimestampsOfRuns(driver.run))
        /\ driver.pc \in {"l56", "end"} =>
              driver.checkpoint = TimestampsOfRuns(driver.run)

\* The third run has completed.
C13_Witness ==
    /\ driver.pc = "launch"
    /\ driver.run = 3
    /\ Len(logFile.data) > MaxLog

\* --------------------------------------------------------------- C14
\* A step that is write_checkpoint of an enabled main object, or
\* get_output_file_path of an enabled object.
MakesJobDir ==
    \E p \in units, s \in Slots :
        /\ objs[p][s].alive /\ objs[p][s].enabled
        /\ \/ objs[p][s].is_main /\ \E R \in Records : WcBegin(p, s, R)
           \/ get_output_file_path(p, s)

MirrorsWrite(p, s, w, x) ==
    ((IF w = "out" THEN sysOut[p] ELSE sysErr[p]) = Sink(s, w) /\ StdWrite(p, w, x)) =>
        /\ logFile' = File(logFile.data \o <<Text(x)>>)
        /\ conOut'[p] = IF w = "out" THEN Append(conOut[p], Text(x)) ELSE conOut[p]
        /\ conErr'[p] = IF w = "err" THEN Append(conErr[p], Text(x)) ELSE conErr[p]

\* C15 as stated: for every enabled main object, each write through its
\* connected sinks appends the text once to the log file and the text reaches
\* the console stream written to, so that the log file is its content after
\* construction followed by the texts written, in the order of the calls.
C15_LogIsConcatenation ==
    [][\A p \in units, s \in Slots :
          (objs[p][s].alive /\ objs[p][s].enabled /\ objs[p][s].is_main) =>
              \A w \in {"out", "err"}, x \in Texts : MirrorsWrite(p, s, w, x)]_vars

\* The object was constructed while sys.stdout / sys.stderr were the console.
OverConsole(o) == o.out = Console("out") /\ o.err = Console("err")

\* C15, amended: the same, for an enabled main object that was constructed
\* while sys.stdout and sys.stderr were the process's console streams.
C15_LogIsConcatenationOverConsole ==
    [][\A p \in units, s \in Slots :
          (objs[p][s].alive /\ objs[p][s].enabled /\ objs[p][s].is_main
              /\ OverConsole(objs[p][s])) =>
                 \A w \in {"out", "err"}, x \in Texts : MirrorsWrite(p, s, w, x)]_vars

\* A main object constructed over the console is connected, and text written
\* through it is in the log file and on the console.
C15_Witness ==
    \E p \in units, s \in Slots :
        /\ objs[p][s].alive /\ objs[p][s].is_main /\ OverConsole(objs[p][s])
        /\ sysOut[p] = Sink(s, "out")
        /\ Len(conOut[p]) >= 1
        /\ logFile.data[Len(logFile.data)].kind = "text"

\* --------------------------------------------------------------- C16
\* The constructor call of p is one of an enabled job with is_main=False.
NonMainCtor(p) == pc[p] \in CtorPcs \cup {"raised"} /\ frame[p].enabled /\ ~frame[p].is_main

\* C16: construction with is_main=False and an enabled job name never runs the
\* log lifecycle: it is never at the existence check or the banner append, it
\* never raises LogAlreadyExistsError, the log file stays what it was when the
\* call began (absent stays absent), and the call ends with _LogSuppress sinks
\* for both streams.
NonMainCtorSkipsLog ==
    \A p \in units :
        NonMainCtor(p) => (pc[p] = "ctor_sinks" /\ logFile = frame[p].pre.log)
NonMainCtorEndsSuppressing ==
    \A p \in units :
        NonMainCtor(p) =>
            /\ pc'[p] # "raised"
            /\ CtorSinks(p) =>
                  /\ logFile' = frame[p].pre.log
                  /\ objs'[p][frame[p].slot].alive
                  /\ objs'[p][frame[p].slot].cls = "_LogSuppress"
                  /\ objs'[p][frame[p].slot].out = sysOut[p]
                  /\ objs'[p][frame[p].slot].err = sysErr[p]
C16_NonMainSkipsLifecycle ==
    [](NonMainCtorSkipsLog) /\ [][NonMainCtorEndsSuppressing]_vars

\* A construction with is_main=False and continue_job=False is about to
\* complete while the log file exists.
C16_Witness ==
    \E p \in units :
        /\ NonMainCtor(p)
        /\ ~frame[p].continue_job
        /\ logFile.ex

\* --------------------------------------------------------------- C17
\* The 'Starting job' banners in the log file.
StartingBanners == {i \in 1..Len(logFile.data) : logFile.data[i].kind = "Starting job"}

\* C17: with the main-unit constructions of one job made one after another,
\* the log file is started once: whenever it exists its first line is a
\* 'Starting job' banner and it holds no other; a construction that found the
\* log file there completes only with continue_job=True, and with
\* continue_job=False it leaves the existence check by raising
\* LogAlreadyExistsError.
LogStartedOnce == logFile.ex => StartingBanners = {1}
LaterCtorContinuesOrRaises ==
    \A p \in units :
        (MainCtor(p) /\ frame[p].pre.log.ex) =>
            /\ CtorSinks(p) => frame[p].continue_job
            /\ (\E ts \in Times : CtorCheck(p, ts)) =>
                  pc'[p] = IF frame[p].continue_job THEN "ctor_append" ELSE "raised"
C17_LogCreatedOnce ==
    [](LogStartedOnce) /\ [][LaterCtorContinuesOrRaises]_vars

\* In one process a first main construction started the log and a second one
\* continued it.
C17_Witness ==
    \E p \in units :
        /\ Idle(p)
        /\ \A s \in Slots : objs[p][s].alive /\ objs[p][s].is_main
        /\ Len(logFile.data) = 3
        /\ logFile.data[3].kind = "Continuing job"

\* --------------------------------------------------------------- C18
\* C18: the existence check and the banner append are two steps: a main
\* construction that found no log file at its check appends its 'Starting job'
\* banner and goes on to complete, without LogAlreadyExistsError, also when
\* another process has created the log file in between; the log file then
\* holds one more 'Starting job' banner.
C18_RaceGoesUndetected ==
    [][\A p \in units :
          (/\ MainCtor(p)
           /\ frame[p].intro_lines # <<>>
           /\ frame[p].intro_lines[1].kind = "Starting job"
           /\ logFile.ex
           /\ CtorAppend(p)) =>
              /\ pc'[p] = "ctor_sinks"
              /\ Cardinality(StartingBanners') = Cardinality(StartingBanners) + 1]_vars

\* Both processes are about to complete a main construction with
\* continue_job=False that found no log file, and the log file holds two
\* 'Starting job' banners.
C18_Witness ==
    /\ \A p \in units :
          /\ pc[p] = "ctor_sinks"
          /\ MainCtor(p)
          /\ ~frame[p].continue_job
          /\ ~frame[p].pre.log.ex
    /\ Cardinality(units) = 2
    /\ Cardinality(StartingBanners) = 2

\* --------------------------------------------------------------- C19
\* sys.stdout / sys.stderr of p are bound to the sinks of its object s.
BoundTo(p, s) == sysOut[p] = Sink(s, "out") /\ sysErr[p] = Sink(s, "err")
\* sys.stdout / sys.stderr of p are what they were when s was constructed.
AsConstructed(p, s) == sysOut[p] = objs[p][s].out /\ sysErr[p] = objs[p][s].err

\* C19: connect_streams binds the streams to the object's own sinks whatever
\* they were before, and changes nothing when they are so bound already;
\* disconnect_streams binds them to the streams of the moment of construction,
\* and changes nothing when they are so bound already (a second call in a row,
\* or a call with no connect_streams before it); neither call changes what
\* the object holds, and on a disabled object neither changes anything.
C19_ConnectDisconnectIdempotent ==
    [][\A p \in units, s \in Slots :
          /\ connect_streams(p, s) =>
                /\ UNCHANGED objs
                /\ objs[p][s].cls # "None" => BoundTo(p, s)'
                /\ (objs[p][s].cls = "None" \/ BoundTo(p, s)) => UNCHANGED <<sysOut, sysErr>>
          /\ disconnect_streams(p, s) =>
                /\ UNCHANGED objs
                /\ objs[p][s].cls # "None" => AsConstructed(p, s)'
                /\ (objs[p][s].cls = "None" \/ AsConstructed(p, s)) =>
                       UNCHANGED <<sysOut, sysErr>>]_vars

\* The streams are bound to the sinks of an object that was constructed while
\* another object's sinks were connected: a further connect_streams finds
\* them bound, a disconnect_streams has another sink to go back to.
C19_Witness ==
    \E p \in units, s \in Slots :
        /\ Idle(p)
        /\ objs[p][s].alive
        /\ BoundTo(p, s)
        /\ objs[p][s].out.k = "sink"

\* --------------------------------------------------------------- C20
\* The write_checkpoint call of p began with a '.new' file on disk, left by an
\* interrupted call.
OverStaleTemp(p) == pc[p] \in WcPcs /\ frame[p].pre.new.ex

\* The next statement of a running write_checkpoint can be executed.
WcCanStep(p) ==
    ENABLED (WcOpen(p) \/ WcWrite(p) \/ WcExists(p) \/ WcUnlink(p) \/ WcRename(p))

\* C20: a write_checkpoint(R) that finds a stale '.new' file is never stuck on
\* it: its open empties the file, and when the call completes checkpoint_path
\* holds exactly R (read_checkpoint returns R) and no '.new' file is left.
StaleTempNeverBlocks == \A p \in units : OverStaleTemp(p) => WcCanStep(p)
StaleTempOverwritten ==
    \A p \in units :
        OverStaleTemp(p) =>
            /\ WcOpen(p) => newFile' = File(<<>>)
            /\ WcRename(p) =>
                  /\ ckptFile' = File(Serialize(frame[p].data))
                  /\ ReadCheckpointValue(FreshObject(TRUE), ckptFile') = RetValue(frame[p].data)
                  /\ newFile' = Absent
                  /\ pc'[p] = "idle"
C20_StaleTempOverwritten ==
    [](StaleTempNeverBlocks) /\ [][StaleTempOverwritten]_vars

\* A call that began over a stale '.new' file holding something other than
\* its own record is about to rename.
C20_Witness ==
    \E p \in units :
        /\ pc[p] = "wc_rename"
        /\ frame[p].pre.new.ex
        /\ ~IsPrefix(frame[p].pre.new.data, Serialize(frame[p].data))

====
